---------------------------- MODULE Spec2Model ----------------------------
(***************************************************************************)
(* Talynix: the job matching and ranking pipeline.                         *)
(*                                                                         *)
(* Sources modelled: talynix_project/filters.py (eligibility, scoring,     *)
(* the filter_jobs pipeline with its relaxed fallback, filter_and_rank),   *)
(* talynix_project/ranker.py (relevance score, rank_jobs),                 *)
(* talynix_project/streamlit_app.py (the "Fetch & Filter Jobs" handler     *)
(* with its url deduplication, and the three handlers that append to the   *)
(* log of applied postings) and talynix_project/job_scraper.py (the        *)
(* aggregation of the per-company batches into jobs_raw.json).             *)
(*                                                                         *)
(* Text is held as a sequence of one-character strings, so that lower(),   *)
(* the substring tests and the regular expression of the source are        *)
(* computed character by character.  Python's None is the value None.      *)
(* Scores that carry decimals (skill_match_pct) are held in hundredths.    *)
(***************************************************************************)
EXTENDS Integers, Sequences, FiniteSets, TLC

VARIABLES
    jobs_raw,        \* storage/jobs_raw.json: the scraped postings, in order
    applied_jobs,    \* storage/applied_jobs.json: the applied-jobs log
    profile,         \* user_prefs.json + resume_data.json
    st_model,        \* TRUE iff the SentenceTransformer was loaded at import
    filtered_jobs,   \* storage/filtered_jobs.json
    top10_jobs,      \* storage/top10_jobs.json
    ineligible_jobs, \* storage/ineligible_jobs.json
    deduped_jobs,    \* the handler's local deduped_jobs of its last run
    shortlist,       \* the list the last pipeline call returned
    last_op,         \* the entry point that ran last
    eligibility_input, \* the list the last run handed to its eligibility stage
    now,             \* the clock, in hours since midnight of day 0
    job,             \* the posting handed to a single classification
    result           \* what that classification returned

vars == << jobs_raw, applied_jobs, profile, st_model, filtered_jobs, top10_jobs,
           ineligible_jobs, deduped_jobs, shortlist, last_op, eligibility_input,
           now, job, result >>

---------------------------------------------------------------------------
(* Python values                                                           *)

\* None, as a text value: no text holds this element
None == << "<None>" >>

\* None, as a key (url, company)
NoneKey == "<None>"

\* x or ''
OrEmpty(x) == IF x = None THEN << >> ELSE x

\* truth value of a text: None and '' are false
Truthy(x) == x # None /\ x # << >>

\* truth value of a key: None and '' are false
TruthyKey(k) == k # NoneKey /\ k # ""

Max(S) == CHOOSE m \in S : \A n \in S : n <= m

Range(s) == { s[i] : i \in 1..Len(s) }

\* F(v), for the value of v
With(v, F(_)) == CHOOSE r \in { F(x) : x \in { v } } : TRUE

\* [F(i) for i in 1..n], as a list
MapIdx(n, F(_)) ==
    LET G[i \in 0..n] == IF i = 0 THEN << >> ELSE Append(G[i - 1], F(i))
    IN  G[n]

\* [e for e in s if Test(e)]
SelectSeqIdx(s, Test(_)) ==
    LET F[i \in 0..Len(s)] ==
            IF i = 0 THEN << >>
            ELSE IF Test(i) THEN Append(F[i - 1], s[i]) ELSE F[i - 1]
    IN  F[Len(s)]

---------------------------------------------------------------------------
(* str operations                                                          *)

UpperCase ==
    [ A |-> "a", B |-> "b", C |-> "c", D |-> "d", E |-> "e", F |-> "f", G |-> "g",
      H |-> "h", I |-> "i", J |-> "j", K |-> "k", L |-> "l", M |-> "m", N |-> "n",
      O |-> "o", P |-> "p", Q |-> "q", R |-> "r", S |-> "s", T |-> "t", U |-> "u",
      V |-> "v", W |-> "w", X |-> "x", Y |-> "y", Z |-> "z" ]

LowerChar(c) == IF c \in DOMAIN UpperCase THEN UpperCase[c] ELSE c

\* str.lower()
Lower(t) == MapIdx(Len(t), LAMBDA i : LowerChar(t[i]))

\* p in t
IsSubstr(p, t) ==
    \E i \in 0..(Len(t) - Len(p)) : \A k \in 1..Len(p) : t[i + k] = p[k]

\* a + ' ' + b
Space == << " " >>

Digit == { "0", "1", "2", "3", "4", "5", "6", "7", "8", "9" }

DigitVal(c) ==
    CASE c = "0" -> 0 [] c = "1" -> 1 [] c = "2" -> 2 [] c = "3" -> 3
      [] c = "4" -> 4 [] c = "5" -> 5 [] c = "6" -> 6 [] c = "7" -> 7
      [] c = "8" -> 8 [] c = "9" -> 9

\* int(x) of a string of digits
RECURSIVE ToInt(_)
ToInt(ds) ==
    IF ds = << >> THEN 0
    ELSE 10 * ToInt(SubSeq(ds, 1, Len(ds) - 1)) + DigitVal(ds[Len(ds)])

\* first position >= i of t that does not satisfy the class (Len(t) + 1 if none)
RECURSIVE SkipWhile(_, _, _)
SkipWhile(t, i, class) ==
    IF i <= Len(t) /\ t[i] \in class THEN SkipWhile(t, i + 1, class) ELSE i

\* whether p occurs in t at position i
StartsAt(p, t, i) ==
    i + Len(p) - 1 <= Len(t) /\ \A k \in 1..Len(p) : t[i + k - 1] = p[k]

W_year == << "y", "e", "a", "r" >>
W_yr == << "y", "r" >>
W_experience == << "e", "x", "p", "e", "r", "i", "e", "n", "c", "e" >>
W_remote == << "r", "e", "m", "o", "t", "e" >>

\* re.findall(r'(\d+)\s*(?:year|yr)', t): the groups of the non-overlapping
\* matches, scanning from position i
RECURSIVE FindallYears(_, _)
FindallYears(t, i) ==
    IF i > Len(t) THEN << >>
    ELSE IF t[i] \notin Digit THEN FindallYears(t, i + 1)
    ELSE LET j == SkipWhile(t, i, Digit)
             k == SkipWhile(t, j, { " ", "\n" })
         IN  IF StartsAt(W_year, t, k)
                 THEN << ToInt(SubSeq(t, i, j - 1)) >> \o FindallYears(t, k + Len(W_year))
             ELSE IF StartsAt(W_yr, t, k)
                 THEN << ToInt(SubSeq(t, i, j - 1)) >> \o FindallYears(t, k + Len(W_yr))
             ELSE FindallYears(t, i + 1)

---------------------------------------------------------------------------
(* The embedding backend, the fuzzy matcher and the date parser            *)

\* int(x) for a quotient n / d with d > 0: truncation towards zero
TruncDiv(n, d) == IF n >= 0 THEN n \div d ELSE -((-n) \div d)

\* lines 26-31 without the test of st_model
compute_semantic_similarity_NoModelTest(text1, text2, cos) ==
    IF ~Truthy(text1) \/ ~Truthy(text2) THEN 0 ELSE cos

\* compute_semantic_similarity(text1, text2); cos is the cosine the backend
\* computes for this pair of texts, in percent
compute_semantic_similarity(text1, text2, cos) ==
    IF ~st_model \/ ~Truthy(text1) \/ ~Truthy(text2) THEN 0 ELSE cos

\* fuzz.partial_ratio(s1, s2) of rapidfuzz, a value in 0..100: 100 when the
\* shorter string occurs in the longer one, 0 when either is empty; the
\* intermediate values of partly similar strings are not distinguished
partial_ratio(s1, s2) ==
    IF s1 = << >> \/ s2 = << >> THEN 0
    ELSE IF IsSubstr(s1, s2) \/ IsSubstr(s2, s1) THEN 100
    ELSE 0

\* posting_date values: None, '', a string that is not in the '%B %d, %Y'
\* form, a value that is no string, and a string in that form naming a day
NoDate == [ kind |-> "None", day |-> 0 ]
EmptyDate == [ kind |-> "empty", day |-> 0 ]
TextDate == [ kind |-> "text", day |-> 0 ]
NumberDate == [ kind |-> "number", day |-> 0 ]
DateOf(d) == [ kind |-> "date", day |-> d ]

\* the recency rule without its second tier: a date older than 14 days
\* scores 0
RecencyScore_NoSecondTier(post_date, t) ==
    IF post_date.kind # "date" THEN 0
    ELSE IF post_date.day * 24 >= t - 14 * 24 THEN 10
    ELSE 0

\* the recency rule of evaluate_job_match: datetime.strptime gives midnight
\* of the day named; it raises on any other value, which the except swallows
RecencyScore(post_date, t) ==
    IF post_date.kind \in { "None", "empty" } THEN 0
    ELSE IF post_date.kind # "date" THEN 0
    ELSE LET dt == post_date.day * 24
         IN  IF dt >= t - 14 * 24 THEN 10
             ELSE IF dt >= t - 30 * 24 THEN 5
             ELSE 0

---------------------------------------------------------------------------
(* filters.py: evaluate_job_match                                          *)

exp_keywords == << W_year, W_yr, W_experience >>

W_bachelor == << "b", "a", "c", "h", "e", "l", "o", "r" >>
W_master == << "m", "a", "s", "t", "e", "r" >>
W_phd == << "p", "h", "d" >>
W_btech == << "b", ".", "t", "e", "c", "h" >>
W_mtech == << "m", ".", "t", "e", "c", "h" >>
W_degree == << "d", "e", "g", "r", "e", "e" >>

degree_keywords == << W_bachelor, W_master, W_phd, W_btech, W_mtech, W_degree >>

\* lines 136-145: the loop over the experience keywords
ExpRequired(j) ==
    LET text == Lower(OrEmpty(j.requirements) \o Space \o OrEmpty(j.description))
        step(acc, kw) ==
            IF IsSubstr(kw, text)
                THEN LET found == FindallYears(text, 1)
                     IN  IF found # << >> THEN Max(Range(found)) ELSE acc
            ELSE acc
    IN  step(step(step(0, exp_keywords[1]), exp_keywords[2]), exp_keywords[3])

\* lines 149-152: the keywords a text mentions
DegreesIn(text) ==
    SelectSeqIdx(degree_keywords, LAMBDA i : IsSubstr(degree_keywords[i], Lower(text)))

\* line 152
DegreeMismatch(user_input, j) ==
    LET job_posting == OrEmpty(j.requirements) \o Space \o OrEmpty(j.description)
        job_degrees == DegreesIn(job_posting)
        user_degrees == DegreesIn(user_input.resume)
    IN  job_degrees # << >>
        /\ ~ \E i \in 1..Len(job_degrees) : job_degrees[i] \in Range(user_degrees)

PreferredLocations(user_input) ==
    [ i \in 1..Len(user_input.user_preferences.location) |->
        Lower(user_input.user_preferences.location[i]) ]

\* any(loc in job_loc for loc in preferred_locations)
AnyPreferredIn(user_input, job_loc) ==
    \E i \in 1..Len(PreferredLocations(user_input)) :
        IsSubstr(PreferredLocations(user_input)[i], job_loc)

\* line 156 without its remote override
LocationMismatch_NoRemote(user_input, j) ==
    ~AnyPreferredIn(user_input, Lower(OrEmpty(j.location)))

\* line 156 with a posting that names no location let through
LocationMismatch_EmptyPasses(user_input, j) ==
    LET job_loc == Lower(OrEmpty(j.location))
    IN  job_loc # << >> /\ ~AnyPreferredIn(user_input, job_loc) /\ ~IsSubstr(W_remote, job_loc)

\* line 156
LocationMismatch(user_input, j) ==
    LET job_loc == Lower(OrEmpty(j.location))
    IN  ~AnyPreferredIn(user_input, job_loc) /\ ~IsSubstr(W_remote, job_loc)

\* line 160
JobTypeMismatch(user_input, j) ==
    LET user_job_type == Lower(user_input.user_preferences.job_type)
        job_type == Lower(OrEmpty(j.work_type))
    IN  user_job_type # << >> /\ ~IsSubstr(user_job_type, job_type) /\ job_type # << >>

\* line 169
LocationScore(user_input, j) ==
    LET job_loc == Lower(OrEmpty(j.location))
    IN  IF AnyPreferredIn(user_input, job_loc) THEN 10
        ELSE IF IsSubstr(W_remote, job_loc) THEN 5
        ELSE 0

\* line 167
TitleScore(user_input, j) ==
    LET job_title == Lower(OrEmpty(j.title))
        titles == user_input.user_preferences.preferred_titles
    IN  Max({ partial_ratio(job_title, Lower(titles[i])) : i \in 1..Len(titles) } \cup { 0 }) \div 7

\* line 184 with 0 for a company that is not in the table
CompanyScore_DefaultZero(j, company_prestige) ==
    IF j.company \in DOMAIN company_prestige THEN company_prestige[j.company] ELSE 0

\* line 184: company_prestige.get(job.get('company', ''), 5)
CompanyScore(j, company_prestige) ==
    IF j.company \in DOMAIN company_prestige THEN company_prestige[j.company] ELSE 5

\* lines 187-199
Comments(skill, title, loc, recency, company) ==
    (IF skill >= 30 THEN << "Strong skill match" >> ELSE << >>)
    \o (IF title >= 10 THEN << "Preferred title" >> ELSE << >>)
    \o (IF loc >= 10 THEN << "Preferred location" >>
        ELSE IF loc >= 5 THEN << "Remote option" >> ELSE << >>)
    \o (IF recency >= 10 THEN << "Recent posting" >> ELSE << >>)
    \o (IF company >= 8 THEN << "Prestigious company" >> ELSE << >>)

\* lines 162-211: the result of an eligible posting
Scored(user_input, j, company_prestige) ==
    LET job_posting == OrEmpty(j.requirements) \o Space \o OrEmpty(j.description)
        skill_score ==
            TruncDiv(compute_semantic_similarity(user_input.resume, job_posting, j.cos) * 50, 100)
        title_score == TitleScore(user_input, j)
        location_score == LocationScore(user_input, j)
        recency_score == RecencyScore(j.posting_date, now)
        company_score == CompanyScore(j, company_prestige)
    IN  [ eligible |-> TRUE,
          match_score |-> skill_score + title_score + location_score
                          + recency_score + company_score,
          score_breakdown |-> [ skill_match |-> skill_score,
                                title_match |-> title_score,
                                location_score |-> location_score,
                                recency_score |-> recency_score,
                                company_score |-> company_score ],
          comments |-> Comments(skill_score, title_score, location_score,
                                recency_score, company_score) ]

R_experience == "Job requires {exp_required} years experience, user has {user_exp}"
R_degree == "Degree/education mismatch"
R_location == "Location not preferred and not remote"
R_job_type == "Job type mismatch: {job_type}"

\* the result of a rejected posting: the message, and the values it is
\* formatted with
Rejected(msg, args) == [ eligible |-> FALSE, reason |-> msg, args |-> args ]

evaluate_job_match(user_input, j, company_prestige) ==
    LET user_exp == user_input.user_preferences.experience_years
        exp_required == ExpRequired(j)
    IN  IF exp_required > user_exp + 1
            THEN Rejected(R_experience, << exp_required, user_exp >>)
        ELSE IF DegreeMismatch(user_input, j)
            THEN Rejected(R_degree, << >>)
        ELSE IF LocationMismatch(user_input, j)
            THEN Rejected(R_location, << >>)
        ELSE IF JobTypeMismatch(user_input, j)
            THEN Rejected(R_job_type, << Lower(OrEmpty(j.work_type)) >>)
        ELSE Scored(user_input, j, company_prestige)

---------------------------------------------------------------------------
(* filters.py: the filter_jobs pipeline                                    *)

\* the length of every shortlist: the literal 10 of the slices
Quota == 10

\* s[:n]
Take(s, n) == SubSeq(s, 1, IF n < Len(s) THEN (IF n < 0 THEN 0 ELSE n) ELSE Len(s))

\* sep.join(texts)
RECURSIVE Join(_, _)
Join(texts, sep) ==
    IF texts = << >> THEN << >>
    ELSE IF Len(texts) = 1 THEN texts[1]
    ELSE texts[1] \o sep \o Join(Tail(texts), sep)

\* an insertion that puts a posting ahead of the earlier ones of equal key:
\* the sort of a list whose equal keys come out in reverse order
InsertDesc_TiesReversed(perm, i, keys) ==
    LET ahead == Cardinality({ q \in 1..Len(perm) : keys[perm[q]] > keys[i] })
    IN  SubSeq(perm, 1, ahead) \o << i >> \o SubSeq(perm, ahead + 1, Len(perm))

\* list.sort(key=..., reverse=True) as the permutation it applies: keys in
\* descending order, equal keys in their original order
InsertDesc(perm, i, keys) ==
    LET ahead == Cardinality({ q \in 1..Len(perm) : keys[perm[q]] >= keys[i] })
    IN  SubSeq(perm, 1, ahead) \o << i >> \o SubSeq(perm, ahead + 1, Len(perm))

SortPerm(keys) ==
    LET F[n \in 0..Len(keys)] ==
            IF n = 0 THEN << >>
            ELSE With(F[n - 1], LAMBDA perm : InsertDesc(perm, n, keys))
    IN  F[Len(keys)]

SortDesc(s, keys) ==
    With(SortPerm(keys), LAMBDA perm : MapIdx(Len(s), LAMBDA i : s[perm[i]]))

W_certification ==
    << "c", "e", "r", "t", "i", "f", "i", "c", "a", "t", "i", "o", "n" >>

relaxed_degree_keywords ==
    << W_bachelor, W_master, W_phd, W_btech, W_mtech, W_degree, W_certification >>

\* relaxed_filter_eligibility calls .lower() on the values of 'description'
\* and 'requirements' as stored: None raises AttributeError
RelaxedRaises(j) == j.description = None \/ j.requirements = None

\* lines 45-58, for a posting on which nothing raises
RelaxedEligible(j, user_profile) ==
    LET user_exp == user_profile.min_experience
        user_degrees == Join(user_profile.education, Space)
        exp_nums == SelectSeqIdx(j.description, LAMBDA i : j.description[i] \in Digit)
        exp_match ==
            ~ \E k \in 1..Len(exp_keywords) :
                /\ \/ IsSubstr(exp_keywords[k], Lower(j.description))
                   \/ IsSubstr(exp_keywords[k], Lower(j.requirements))
                /\ exp_nums # << >>
                /\ Max({ DigitVal(exp_nums[i]) : i \in 1..Len(exp_nums) }) > user_exp + 1
        degree_match ==
            ~ \E k \in 1..Len(relaxed_degree_keywords) :
                /\ IsSubstr(relaxed_degree_keywords[k], Lower(j.requirements))
                /\ ~IsSubstr(relaxed_degree_keywords[k], Lower(user_degrees))
    IN  exp_match /\ degree_match

\* relaxed_filter_eligibility: the postings kept, or the exception
relaxed_filter_eligibility(jobs, user_profile) ==
    With(jobs, LAMBDA js :
        IF \E i \in 1..Len(js) : RelaxedRaises(js[i])
            THEN [ raised |-> TRUE, value |-> << >> ]
        ELSE [ raised |-> FALSE,
               value |-> SelectSeqIdx(js, LAMBDA i : RelaxedEligible(js[i], user_profile)) ])

\* lines 68-78 with `+=` for the assignment of line 78: the score is added to
\* the one the posting already carries
SkillMatchPct_Accumulating(j, user_profile) ==
    LET user_skills == user_profile.skills
        user_text == Join(user_skills \o user_profile.education, Space)
        job_text == OrEmpty(j.requirements) \o Space \o OrEmpty(j.description)
                        \o Space \o OrEmpty(j.title)
        matched == { i \in 1..Len(user_skills) :
                        /\ user_skills[i] # << >>
                        /\ IsSubstr(Lower(user_skills[i]), Lower(job_text)) }
        fuzzy_score == 10 * Cardinality(matched)
        semantic_score == compute_semantic_similarity(user_text, job_text, j.cos)
    IN  (IF "skill_match_pct" \in DOMAIN j THEN j.skill_match_pct ELSE 0)
        + 70 * semantic_score + 30 * fuzzy_score * 100

\* lines 68-78: skill_match_pct of a posting, in hundredths
SkillMatchPct(j, user_profile) ==
    LET user_skills == user_profile.skills
        user_text == Join(user_skills \o user_profile.education, Space)
        job_text == OrEmpty(j.requirements) \o Space \o OrEmpty(j.description)
                        \o Space \o OrEmpty(j.title)
        matched == { i \in 1..Len(user_skills) :
                        /\ user_skills[i] # << >>
                        /\ IsSubstr(Lower(user_skills[i]), Lower(job_text)) }
        fuzzy_score == 10 * Cardinality(matched)
        semantic_score == compute_semantic_similarity(user_text, job_text, j.cos)
    IN  70 * semantic_score + 30 * fuzzy_score * 100

\* d.update(e): the keys of e added to d, or overwritten
Update(d, e) == e @@ d

\* filter_skill_match: every posting gets its skill_match_pct; those at or
\* above the threshold are returned
filter_skill_match(jobs, user_profile, threshold) ==
    With(MapIdx(Len(jobs), LAMBDA i :
             Update(jobs[i], [ skill_match_pct |-> SkillMatchPct(jobs[i], user_profile) ])),
         LAMBDA enriched :
             SelectSeqIdx(enriched, LAMBDA i : enriched[i].skill_match_pct >= threshold * 100))

\* filter_eligibility: the debug version, which returns every posting
filter_eligibility(jobs, user_profile) == jobs

\* line 97
AppliedUrls(applied) == { applied[i].url : i \in 1..Len(applied) }

\* line 100
NotApplied(jobs, applied) ==
    With(AppliedUrls(applied), LAMBDA applied_urls :
        SelectSeqIdx(jobs, LAMBDA i : jobs[i].url \notin applied_urls))

\* line 102: the strict pass
StrictPass(jobs, user_profile, threshold) ==
    filter_skill_match(filter_eligibility(jobs, user_profile), user_profile, threshold)

\* lines 106-107 without the test on filtered_urls
RelaxedCandidates_All(jobs, skill_filtered) == jobs

\* lines 106-107
RelaxedCandidates(jobs, skill_filtered) ==
    With({ skill_filtered[i].url : i \in 1..Len(skill_filtered) }, LAMBDA filtered_urls :
        SelectSeqIdx(jobs, LAMBDA i : jobs[i].url \notin filtered_urls))

\* lines 104-111: the relaxed pass, when the strict one is short of ten
Fallback(jobs, skill_filtered, user_profile) ==
    With(relaxed_filter_eligibility(RelaxedCandidates(jobs, skill_filtered), user_profile),
         LAMBDA relaxed_eligible :
             IF relaxed_eligible.raised THEN relaxed_eligible
             ELSE With(filter_skill_match(relaxed_eligible.value, user_profile, 20),
                       LAMBDA relaxed_skill_filtered :
                           [ raised |-> FALSE,
                             value |-> skill_filtered
                                 \o Take(relaxed_skill_filtered, 10 - Len(skill_filtered)) ]))

\* line 113
SortBySkillMatch(jobs) ==
    SortDesc(jobs, MapIdx(Len(jobs), LAMBDA i : jobs[i].skill_match_pct))

\* line 78, seen from the caller: filter_skill_match writes skill_match_pct
\* on the posting objects it is given, which are the objects of the caller
Processed(jobs, user_profile) ==
    MapIdx(Len(jobs), LAMBDA i :
        Update(jobs[i], [ skill_match_pct |-> SkillMatchPct(jobs[i], user_profile) ]))

\* lines 100-121, on the loaded lists: the exception of the relaxed filter,
\* or top10, which is also what is saved; filter_eligibility returns the list
\* it is given, so the relaxed pass reads the objects the strict one has
\* written on
filter_jobs(all_jobs, applied, user_profile, threshold) ==
    With(NotApplied(all_jobs, applied), LAMBDA jobs :
    With(StrictPass(jobs, user_profile, threshold), LAMBDA skill_filtered :
    With(IF Len(skill_filtered) < 10
             THEN Fallback(Processed(filter_eligibility(jobs, user_profile), user_profile),
                           skill_filtered, user_profile)
         ELSE [ raised |-> FALSE, value |-> skill_filtered ],
         LAMBDA filled :
             IF filled.raised THEN filled
             ELSE [ raised |-> FALSE, value |-> Take(SortBySkillMatch(filled.value), 10) ])))

---------------------------------------------------------------------------
(* filters.py: the evaluate_job_match pipelines                            *)

\* lines 224-232
filter_eligible_jobs(user_input, jobs, prestige) ==
    With(MapIdx(Len(jobs), LAMBDA i :
             Update(jobs[i], evaluate_job_match(user_input, jobs[i], prestige))),
         LAMBDA results : SelectSeqIdx(results, LAMBDA i : results[i].eligible))

\* line 240
SortByMatchScore(jobs) ==
    SortDesc(jobs, MapIdx(Len(jobs), LAMBDA i : jobs[i].match_score))

\* lines 235-240 without the final slice
filter_and_rank_jobs_NoSlice(user_input, jobs, prestige) ==
    With(filter_eligible_jobs(user_input, jobs, prestige), LAMBDA eligible_jobs :
    With(SelectSeqIdx(eligible_jobs, LAMBDA i : eligible_jobs[i].match_score >= 40),
         LAMBDA ranked : SortByMatchScore(ranked)))

\* lines 235-241 with `> 40` for the threshold test of line 239
filter_and_rank_jobs_Above40(user_input, jobs, prestige) ==
    With(filter_eligible_jobs(user_input, jobs, prestige), LAMBDA eligible_jobs :
    With(SelectSeqIdx(eligible_jobs, LAMBDA i : eligible_jobs[i].match_score > 40),
         LAMBDA ranked : Take(SortByMatchScore(ranked), 10)))

\* lines 235-241
filter_and_rank_jobs(user_input, jobs, prestige) ==
    With(filter_eligible_jobs(user_input, jobs, prestige), LAMBDA eligible_jobs :
    With(SelectSeqIdx(eligible_jobs, LAMBDA i : eligible_jobs[i].match_score >= 40),
         LAMBDA ranked : Take(SortByMatchScore(ranked), 10)))

\* lines 213-222 with the slice taken before the sort
match_and_rank_jobs_SliceFirst(user_input, jobs, prestige) ==
    With(MapIdx(Len(jobs), LAMBDA i :
             Update(jobs[i], evaluate_job_match(user_input, jobs[i], prestige))),
         LAMBDA evaluated :
    With(SelectSeqIdx(evaluated,
             LAMBDA i : evaluated[i].eligible /\ evaluated[i].match_score >= 40),
         LAMBDA results : SortByMatchScore(Take(results, 10))))

\* lines 213-222
match_and_rank_jobs(user_input, jobs, prestige) ==
    With(MapIdx(Len(jobs), LAMBDA i :
             Update(jobs[i], evaluate_job_match(user_input, jobs[i], prestige))),
         LAMBDA evaluated :
    With(SelectSeqIdx(evaluated,
             LAMBDA i : evaluated[i].eligible /\ evaluated[i].match_score >= 40),
         LAMBDA results : Take(SortByMatchScore(results), 10)))

\* streamlit_app.py lines 175-181: the rejected postings, with their reasons
Ineligible(user_input, jobs, prestige) ==
    With(MapIdx(Len(jobs), LAMBDA i : evaluate_job_match(user_input, jobs[i], prestige)),
         LAMBDA verdicts :
    With(MapIdx(Len(jobs), LAMBDA i :
             Update(jobs[i], [ reason |-> IF verdicts[i].eligible
                                             THEN "Not eligible"
                                          ELSE verdicts[i].reason ])),
         LAMBDA copies : SelectSeqIdx(copies, LAMBDA i : ~verdicts[i].eligible)))

---------------------------------------------------------------------------
(* ranker.py                                                               *)

W_global == << "g", "l", "o", "b", "a", "l" >>
W_indian == << "i", "n", "d", "i", "a", "n" >>

\* job_scraper.py lines 17-24: the names of the two company lists
GLOBAL_COMPANIES == { "Google", "Microsoft" }
INDIAN_COMPANIES == { "TCS", "Infosys" }

\* get_company_rank
get_company_rank(user_profile) ==
    LET pref == Lower(user_profile.company_preference)
        global_weight == IF IsSubstr(W_global, pref) THEN 10 ELSE 5
        indian_weight == IF IsSubstr(W_indian, pref) THEN 10 ELSE 5
    IN  [ c \in GLOBAL_COMPANIES \cup INDIAN_COMPANIES |->
            IF c \in INDIAN_COMPANIES THEN indian_weight ELSE global_weight ]

\* loc.split(',')[0]
BeforeComma(t) ==
    LET commas == { i \in 1..Len(t) : t[i] = "," }
    IN  IF commas = { } THEN t
        ELSE SubSeq(t, 1, (CHOOSE i \in commas : \A k \in commas : i <= k) - 1)

\* lines 45-55: the loop over the preferred locations, from location i on
RECURSIVE LocLoop(_, _, _, _)
LocLoop(user_locs, i, job_loc, loc_score) ==
    IF i > Len(user_locs) THEN loc_score
    ELSE IF IsSubstr(user_locs[i], job_loc) THEN 15
    ELSE IF IsSubstr(BeforeComma(user_locs[i]), job_loc)
        THEN LocLoop(user_locs, i + 1, job_loc, 8)
    ELSE LocLoop(user_locs, i + 1, job_loc, loc_score)

\* compute_relevance_score calls .lower() on the value of 'location' as stored
RelevanceRaises(j) == j.location = None

\* compute_relevance_score, in hundredths, for a posting on which nothing
\* raises; skill_match_pct is absent from the postings the evaluate_job_match
\* pipelines saved
RelevanceScore(j, user_profile, company_rank) ==
    LET skill_score == IF "skill_match_pct" \in DOMAIN j THEN j.skill_match_pct ELSE 0
        user_text == Join(user_profile.skills \o user_profile.education, Space)
        job_text == OrEmpty(j.requirements) \o Space \o OrEmpty(j.description)
                        \o Space \o OrEmpty(j.title)
        semantic_score == compute_semantic_similarity(user_text, job_text, j.cos)
        user_locs == [ i \in 1..Len(user_profile.preferred_locations) |->
                         Lower(user_profile.preferred_locations[i]) ]
        job_loc == Lower(j.location)
        looped == LocLoop(user_locs, 1, job_loc, 0)
        loc_score == IF IsSubstr(W_remote, job_loc) /\ looped < 5 THEN 5 ELSE looped
        company_score == IF j.company \in DOMAIN company_rank THEN company_rank[j.company] ELSE 0
        recency_score ==
            IF j.posting_date.kind = "date" /\ j.posting_date.day * 24 >= now - 7 * 24
                THEN 5 ELSE 0
    IN  (30 * skill_score) \div 100 + 40 * semantic_score + 15 * loc_score
            + 10 * company_score + 5 * recency_score

\* line 106
SortByRelevance(jobs) ==
    SortDesc(jobs, MapIdx(Len(jobs), LAMBDA i : jobs[i].relevance_score))

\* lines 104-108, on the loaded list: the exception, or top_jobs
rank_jobs(jobs, user_profile, top_n) ==
    IF \E i \in 1..Len(jobs) : RelevanceRaises(jobs[i])
        THEN [ raised |-> TRUE, value |-> << >> ]
    ELSE With(get_company_rank(user_profile), LAMBDA company_rank :
         With(MapIdx(Len(jobs), LAMBDA i :
                  Update(jobs[i], [ relevance_score |->
                      RelevanceScore(jobs[i], user_profile, company_rank) ])),
              LAMBDA scored :
                  [ raised |-> FALSE, value |-> Take(SortByRelevance(scored), top_n) ]))

---------------------------------------------------------------------------
(* streamlit_app.py: "Deduplicate jobs by url"                             *)

\* the loop with no seen.add(url): every posting with a url is kept
Dedupe_NoSeenAdd(jobs) ==
    SelectSeqIdx(jobs, LAMBDA i : TruthyKey(jobs[i].url))

\* the loop deleting from the list it iterates over: the posting after a
\* deleted one is passed over, unexamined
RECURSIVE DropWhileIterating(_, _, _, _)
DropWhileIterating(jobs, i, seen, out) ==
    IF i > Len(jobs) THEN out
    ELSE LET url == jobs[i].url
         IN  IF TruthyKey(url) /\ url \notin seen
                 THEN DropWhileIterating(jobs, i + 1, seen \cup { url }, Append(out, jobs[i]))
             ELSE IF i + 1 <= Len(jobs)
                 THEN DropWhileIterating(jobs, i + 2, seen, Append(out, jobs[i + 1]))
             ELSE out

Dedupe_DropWhileIterating(jobs) == DropWhileIterating(jobs, 1, { }, << >>)

\* lines 165-171, from posting i on, with the set seen and the list built
RECURSIVE DedupeFrom(_, _, _, _)
DedupeFrom(jobs, i, seen, out) ==
    IF i > Len(jobs) THEN out
    ELSE LET url == jobs[i].url
         IN  IF TruthyKey(url) /\ url \notin seen
                 THEN DedupeFrom(jobs, i + 1, seen \cup { url }, Append(out, jobs[i]))
             ELSE DedupeFrom(jobs, i + 1, seen, out)

Dedupe(jobs) == DedupeFrom(jobs, 1, { }, << >>)

---------------------------------------------------------------------------
(* Inputs: postings, profiles, the prestige table                          *)

W_years == << "y", "e", "a", "r", "s" >>
W_yrs == << "y", "r", "s" >>
W_required == << "r", "e", "q", "u", "i", "r", "e", "d" >>
W_Remote == << "R", "e", "m", "o", "t", "e" >>
W_REMOTE == << "R", "E", "M", "O", "T", "E" >>
W_Bangalore == << "B", "a", "n", "g", "a", "l", "o", "r", "e" >>
W_bangalore == << "b", "a", "n", "g", "a", "l", "o", "r", "e" >>
W_Pune == << "P", "u", "n", "e" >>
W_FullTime == << "F", "u", "l", "l", "-", "t", "i", "m", "e" >>
W_PartTime == << "P", "a", "r", "t", "-", "t", "i", "m", "e" >>
W_SDE == << "S", "D", "E" >>

\* "5+ years experience required"
T_5PlusYears ==
    << "5", "+" >> \o Space \o W_years \o Space \o W_experience \o Space \o W_required

\* "2 yrs"
T_2Yrs == << "2" >> \o Space \o W_yrs

\* "Remote, Bangalore"
T_RemoteBangalore == W_Remote \o << ",", " " >> \o W_Bangalore

\* "Global > Indian"
T_GlobalIndian ==
    << "G", "l", "o", "b", "a", "l", " ", ">", " ", "I", "n", "d", "i", "a", "n" >>

\* "Indian > Global"
T_IndianGlobal ==
    << "I", "n", "d", "i", "a", "n", " ", ">", " ", "G", "l", "o", "b", "a", "l" >>

\* the texts made of at most n words of W
RECURSIVE Phrases(_, _)
Phrases(W, n) ==
    IF n = 0 THEN { << >> }
    ELSE LET P == Phrases(W, n - 1) IN P \cup { p \o w : p \in P, w \in W }

\* longest requirements text enumerated, in words
MaxWords == 4

\* largest min_experience enumerated
MaxExperience == 2

ReqWords == { << "5" >>, << "1" >>, << "+" >>, Space, W_years, W_experience }

\* a posting as the scrapers emit it: every key present, values possibly None.
\* cos is the cosine the embedding backend computes for the posting's text
\* against the profile's; pos is the posting's place in the scraped list, which
\* no code reads
Posting(url, title, company, location, posting_date, work_type, requirements, description, cos) ==
    [ pos |-> 0, url |-> url, title |-> title, company |-> company, location |-> location,
      posting_date |-> posting_date, work_type |-> work_type,
      requirements |-> requirements, description |-> description, cos |-> cos ]

\* the profile: resume_data.json (raw_text, skills, education) and
\* user_prefs.json
Profile(resume, skills, education, min_experience, preferred_locations, target_roles) ==
    [ resume |-> resume, skills |-> skills, education |-> education,
      min_experience |-> min_experience,
      preferred_locations |-> preferred_locations, target_roles |-> target_roles,
      company_preference |-> T_GlobalIndian ]

\* streamlit_app.py lines 152-161 (and filters.py lines 257-266)
UserInput(p) ==
    [ resume |-> p.resume,
      user_preferences |->
        [ preferred_titles |-> p.target_roles,
          location |-> p.preferred_locations,
          experience_years |-> p.min_experience,
          job_type |-> W_FullTime ] ]

\* streamlit_app.py line 172
company_prestige == [ Google |-> 10, Microsoft |-> 9, Amazon |-> 8 ]

\* postings whose requirements run over every short text, remote
TextJobs ==
    { Posting("u1", W_SDE, "Amazon", W_Remote, NoDate, None, r, d, 90) :
        r \in Phrases(ReqWords, MaxWords), d \in { None, T_2Yrs } }

\* postings that vary in location, work type and the presence of the texts
FieldJobs ==
    { Posting("u1", W_SDE, "Google", l, DateOf(0), w, r, d, 90) :
        l \in { None, << >>, W_Remote, W_REMOTE, W_Pune, T_RemoteBangalore },
        w \in { None, W_FullTime, W_PartTime },
        r \in { None, << >>, T_5PlusYears },
        d \in { None, T_2Yrs, W_phd } }

TextProfiles ==
    { Profile(W_phd, << >>, << >>, e, << W_Bangalore >>, << W_SDE >>) :
        e \in 0..MaxExperience }

FieldProfiles ==
    { Profile(r, << >>, << >>, e, l, << W_SDE >>) :
        r \in { << >>, W_phd }, e \in 0..MaxExperience,
        l \in { << >>, << W_Bangalore >>, << W_Pune, W_bangalore >> } }

\* "bachelor master"
T_BachelorMaster == W_bachelor \o Space \o W_master

\* postings that ask for degrees, remote
DegreeJobs ==
    { Posting("u1", W_SDE, "Amazon", W_Remote, NoDate, None, r, << >>, 90) :
        r \in { T_BachelorMaster, W_certification, W_phd } }

\* profiles whose resume text is their education
DegreeProfiles ==
    { Profile(e, << >>, << e >>, 0, << >>, << W_SDE >>) :
        e \in { << >>, W_bachelor, W_phd } }

\* postings that vary in what the sub-scores read: title, company, location,
\* posting date and the cosine of the backend
ScoreJobs ==
    { Posting("u1", t, c, l, p, None, W_required, << >>, cos) :
        t \in { None, W_SDE }, c \in { "Google", "TCS" },
        l \in { W_Remote, W_Bangalore },
        p \in { NoDate, EmptyDate, TextDate, NumberDate, DateOf(0), DateOf(-14),
                DateOf(-20), DateOf(-30), DateOf(-40) },
        cos \in { 0, 50, 100 } }

ScoreProfiles ==
    { Profile(W_phd, << >>, << >>, 0, << W_Bangalore >>, r) : r \in { << >>, << W_SDE >> } }

NoResult == Rejected("<not evaluated>", << >>)

---------------------------------------------------------------------------
(* One classification: evaluate_job_match on one posting and one profile   *)

InitMatch ==
    /\ \/ job \in TextJobs /\ profile \in TextProfiles
       \/ job \in FieldJobs /\ profile \in FieldProfiles
       \/ job \in DegreeJobs /\ profile \in DegreeProfiles
       \/ job \in ScoreJobs /\ profile \in ScoreProfiles
    /\ now \in { 12 }
    /\ st_model = TRUE
    /\ result = NoResult
    /\ last_op = "none"
    /\ eligibility_input = << >>
    /\ jobs_raw = << >>
    /\ applied_jobs = << >>
    /\ filtered_jobs = << >>
    /\ top10_jobs = << >>
    /\ ineligible_jobs = << >>
    /\ deduped_jobs = << >>
    /\ shortlist = << >>

EvaluateJobMatch ==
    /\ last_op = "none"
    /\ result' = evaluate_job_match(UserInput(profile), job, company_prestige)
    /\ last_op' = "evaluate_job_match"
    /\ UNCHANGED << jobs_raw, applied_jobs, profile, st_model, filtered_jobs,
                    top10_jobs, ineligible_jobs, deduped_jobs, shortlist,
                    eligibility_input, now, job >>

\* filters.py relaxed_filter_eligibility on the posting just classified, as
\* the fallback of filter_jobs calls it: the list kept, or the exception
RelaxedFilterEligibility ==
    /\ last_op = "evaluate_job_match"
    /\ \E r \in { relaxed_filter_eligibility(<< job >>, profile) } :
          /\ shortlist' = r.value
          /\ last_op' = IF r.raised THEN "relaxed_filter_eligibility raised"
                                    ELSE "relaxed_filter_eligibility"
    /\ UNCHANGED << jobs_raw, applied_jobs, profile, st_model, filtered_jobs,
                    top10_jobs, ineligible_jobs, deduped_jobs, result,
                    eligibility_input, now, job >>

NextMatch == EvaluateJobMatch \/ RelaxedFilterEligibility

SpecMatch == InitMatch /\ [][NextMatch]_vars

---------------------------------------------------------------------------
(* Properties of one classification                                        *)

JobText == Lower(OrEmpty(job.requirements) \o Space \o OrEmpty(job.description))

\* the numbers a text states as years: digits, an optional "+", optional
\* blanks, then "year" or "yr"
RECURSIVE StatedYears(_, _)
StatedYears(t, i) ==
    IF i > Len(t) THEN << >>
    ELSE IF t[i] \notin Digit THEN StatedYears(t, i + 1)
    ELSE LET j == SkipWhile(t, i, Digit)
             p == IF j <= Len(t) /\ t[j] = "+" THEN j + 1 ELSE j
             k == SkipWhile(t, p, { " ", "\n" })
         IN  IF StartsAt(W_year, t, k) \/ StartsAt(W_yr, t, k)
                 THEN << ToInt(SubSeq(t, i, j - 1)) >> \o StatedYears(t, k + 2)
             ELSE StatedYears(t, j)

\* C8: a posting whose text states a number of years above
\* min_experience + 1, the form "N+ years" included, is rejected by strict
\* eligibility with the experience reason naming the maximum stated and the
\* years available.
C8_RejectsOverExperience ==
    last_op = "evaluate_job_match" =>
        LET stated == StatedYears(JobText, 1)
        IN  (stated # << >> /\ Max(Range(stated)) > profile.min_experience + 1) =>
                /\ ~result.eligible
                /\ result.reason = R_experience
                /\ result.args = << Max(Range(stated)), profile.min_experience >>

\* any preferred location, compared without case, occurs in the location
PreferredOccurs ==
    \E i \in 1..Len(profile.preferred_locations) :
        IsSubstr(Lower(profile.preferred_locations[i]), Lower(OrEmpty(job.location)))

IsRemote == IsSubstr(W_remote, Lower(OrEmpty(job.location)))

\* C9: a posting whose location contains "remote" in any case is never
\* rejected by the location check, and when it is scored its location
\* sub-score is 10 if a preferred location occurs in its location and
\* exactly 5 otherwise.
C9_RemoteOverride ==
    (last_op = "evaluate_job_match" /\ IsRemote) =>
        IF result.eligible
            THEN result.score_breakdown.location_score = (IF PreferredOccurs THEN 10 ELSE 5)
            ELSE result.reason # R_location

\* C9 witness: location "Remote", preferred ["Bangalore"], scored with 5
C9_Witness ==
    /\ last_op = "evaluate_job_match"
    /\ job.location = W_Remote
    /\ profile.preferred_locations = << W_Bangalore >>
    /\ result.eligible
    /\ result.score_breakdown.location_score = 5

\* C10: a posting with no year keyword, no degree keyword, an empty or null
\* location and no work type is classified eligible, whatever the profile.
C10_MissingDataEligible ==
    ( /\ last_op = "evaluate_job_match"
      /\ \A i \in 1..Len(exp_keywords) : ~IsSubstr(exp_keywords[i], JobText)
      /\ \A i \in 1..Len(degree_keywords) : ~IsSubstr(degree_keywords[i], JobText)
      /\ ~Truthy(job.location)
      /\ ~Truthy(job.work_type) )
    => result.eligible

\* the profile's education, as one lower-case text
EducationText == Lower(Join(profile.education, Space))

\* C11: a posting whose text mentions a degree keyword (bachelor, master,
\* phd, b.tech, m.tech, degree, certification) that the profile's education
\* does not mention is rejected with the education reason, unless the
\* experience check has rejected it first, even if the profile mentions
\* another degree keyword of the posting.  Stated for the profiles whose
\* resume text is their education text, the text the code reads.
C11_RejectsAnyMissingDegree ==
    ( /\ last_op = "evaluate_job_match"
      /\ Lower(profile.resume) = EducationText
      /\ \E k \in 1..Len(relaxed_degree_keywords) :
            /\ IsSubstr(relaxed_degree_keywords[k], JobText)
            /\ ~IsSubstr(relaxed_degree_keywords[k], EducationText) )
    => ~result.eligible /\ result.reason \in { R_degree, R_experience }


\* C16: for an eligible posting, match_score is non-negative and is the sum
\* of the five entries of score_breakdown; skill_match is at most 50,
\* title_match at most 15, location_score and recency_score are 0, 5 or 10,
\* and company_score is the value of the table, or 5 without one
C16_ScoreBreakdown ==
    ( last_op = "evaluate_job_match" /\ result.eligible ) =>
        LET b == result.score_breakdown
        IN  /\ result.match_score >= 0
            /\ result.match_score = b.skill_match + b.title_match + b.location_score
                                        + b.recency_score + b.company_score
            /\ b.skill_match <= 50
            /\ b.title_match <= 15
            /\ b.location_score \in { 0, 5, 10 }
            /\ b.recency_score \in { 0, 5, 10 }
            /\ b.company_score = IF job.company \in DOMAIN company_prestige
                                     THEN company_prestige[job.company]
                                     ELSE 5

\* an eligible posting of a company outside the table, with the highest
\* cosine, a preferred title and location, posted between 14 and 30 days ago
C16_Witness ==
    /\ last_op = "evaluate_job_match"
    /\ result.eligible
    /\ job.company \notin DOMAIN company_prestige
    /\ result.score_breakdown.skill_match = 50
    /\ result.score_breakdown.title_match > 0
    /\ result.score_breakdown.location_score = 10
    /\ result.score_breakdown.recency_score = 5


\* C22: the relaxed mode accepts a posting exactly when the experience check
\* and the education check of the strict mode both pass (the strict mode
\* then accepts, or rejects on location or work type); the profile's resume
\* text is its education
C22_RelaxedIsStrictWithoutLocation ==
    ( last_op = "relaxed_filter_eligibility" /\ Lower(profile.resume) = EducationText ) =>
        ( shortlist = << job >>
            <=> ( result.eligible \/ result.reason \in { R_location, R_job_type } ) )


\* C24: a posting_date that is null, empty, no string or not in the expected
\* form gives a recency sub-score of 0, and the posting is scored all the
\* same; a date in the expected form gives 10 when it is at most 14 days
\* before now, 5 when at most 30 days, 0 when older (ages in hours)
C24_RecencyScore ==
    ( last_op # "none" /\ result.eligible ) =>
        LET age == now - job.posting_date.day * 24
        IN  result.score_breakdown.recency_score
                = IF job.posting_date.kind # "date" THEN 0
                  ELSE IF age <= 14 * 24 THEN 10
                  ELSE IF age <= 30 * 24 THEN 5
                  ELSE 0

\* a posting whose posting_date is a number, not a string, has been scored
C24_Witness ==
    /\ last_op = "evaluate_job_match"
    /\ job.posting_date = NumberDate
    /\ result.eligible
    /\ result.match_score > 0


\* C25: a posting that evaluate_job_match classifies as eligible has a
\* location sub-score of 5 or 10, never 0
C25_EligibleLocationScore ==
    ( last_op \in { "evaluate_job_match", "relaxed_filter_eligibility",
                    "relaxed_filter_eligibility raised" }
      /\ result.eligible )
    => result.score_breakdown.location_score \in { 5, 10 }

\* an eligible posting that is not remote, in a preferred location
C25_Witness ==
    /\ last_op = "evaluate_job_match"
    /\ result.eligible
    /\ ~IsRemote
    /\ PreferredOccurs
    /\ result.score_breakdown.location_score = 10

---------------------------------------------------------------------------
(* The deduplicator alone, on every short list of postings                 *)

\* longest list handed to the deduplicator
MaxDedupeLen == 4

RECURSIVE SeqsUpTo(_, _)
SeqsUpTo(S, n) ==
    IF n = 0 THEN { << >> }
    ELSE LET P == SeqsUpTo(S, n - 1) IN P \cup { Append(p, e) : p \in P, e \in S }

DedupeJobs ==
    { Posting(u, t, "Amazon", W_Remote, NoDate, None, None, None, 0) :
        u \in { "u1", "u2", "", NoneKey }, t \in { W_SDE, None } }

InitDedupe ==
    /\ jobs_raw \in SeqsUpTo(DedupeJobs, MaxDedupeLen)
    /\ deduped_jobs = << >>
    /\ last_op = "none"
    /\ eligibility_input = << >>
    /\ now = 12
    /\ st_model = TRUE
    /\ profile = Profile(<< >>, << >>, << >>, 0, << >>, << >>)
    /\ job = Posting("", None, "", None, NoDate, None, None, None, 0)
    /\ result = NoResult
    /\ applied_jobs = << >>
    /\ filtered_jobs = << >>
    /\ top10_jobs = << >>
    /\ ineligible_jobs = << >>
    /\ shortlist = << >>

\* the deduplicator applied to the scraped list
Deduplicate ==
    /\ last_op = "none"
    /\ deduped_jobs' = Dedupe(jobs_raw)
    /\ last_op' = "dedupe"
    /\ UNCHANGED << jobs_raw, applied_jobs, profile, st_model, filtered_jobs,
                    top10_jobs, ineligible_jobs, shortlist, eligibility_input, now,
                    job, result >>

\* the deduplicator applied to its own output
DeduplicateAgain ==
    /\ last_op = "dedupe"
    /\ deduped_jobs' = Dedupe(deduped_jobs)
    /\ last_op' = "dedupe again"
    /\ UNCHANGED << jobs_raw, applied_jobs, profile, st_model, filtered_jobs,
                    top10_jobs, ineligible_jobs, shortlist, eligibility_input, now,
                    job, result >>

NextDedupe == Deduplicate \/ DeduplicateAgain

SpecDedupe == InitDedupe /\ [][NextDedupe]_vars

\* position of the first posting of a list with url u
FirstWithUrl(jobs, u) == CHOOSE i \in 1..Len(jobs) :
    jobs[i].url = u /\ \A k \in 1..(i - 1) : jobs[k].url # u

\* C5: the deduplicator's output holds at most one posting per url, each one
\* the first posting of the input with that url, in the input's order.
C5_DedupeKeepsFirst ==
    last_op = "dedupe" =>
        /\ \A a, b \in 1..Len(deduped_jobs) :
               deduped_jobs[a].url = deduped_jobs[b].url => a = b
        /\ \A a \in 1..Len(deduped_jobs) :
               /\ \E i \in 1..Len(jobs_raw) : jobs_raw[i].url = deduped_jobs[a].url
               /\ deduped_jobs[a] = jobs_raw[FirstWithUrl(jobs_raw, deduped_jobs[a].url)]
        /\ \A a, b \in 1..Len(deduped_jobs) :
               a < b => FirstWithUrl(jobs_raw, deduped_jobs[a].url)
                            < FirstWithUrl(jobs_raw, deduped_jobs[b].url)
        /\ \A i \in 1..Len(jobs_raw) :
               TruthyKey(jobs_raw[i].url) =>
                   \E a \in 1..Len(deduped_jobs) : deduped_jobs[a].url = jobs_raw[i].url

\* C5 witness: a later posting with the url of an earlier, different one was
\* dropped
C5_Witness ==
    /\ last_op = "dedupe"
    /\ Len(deduped_jobs) = 2
    /\ \E i, k \in 1..Len(jobs_raw) :
           i < k /\ jobs_raw[i].url = jobs_raw[k].url /\ jobs_raw[i] # jobs_raw[k]
              /\ TruthyKey(jobs_raw[i].url) /\ jobs_raw[k] \notin Range(deduped_jobs)

\* C6: deduplicating the deduplicator's output leaves it unchanged.
C6_DedupeIdempotent ==
    [][last_op = "dedupe" => deduped_jobs' = deduped_jobs]_vars

\* C6 witness: a second pass was made over the output of a first pass that
\* had dropped postings
C6_Witness ==
    /\ last_op = "dedupe again"
    /\ deduped_jobs # << >>
    /\ Len(deduped_jobs) < Len(jobs_raw)

\* C7: every posting whose url is None or empty is in the deduplicator's
\* output, as many times as in its input.
C7_KeepsPostingsWithoutUrl ==
    last_op = "dedupe" =>
        Cardinality({ i \in 1..Len(jobs_raw) : ~TruthyKey(jobs_raw[i].url) })
            = Cardinality({ a \in 1..Len(deduped_jobs) : ~TruthyKey(deduped_jobs[a].url) })

---------------------------------------------------------------------------
(* The pipelines over the stored files                                     *)

\* a long list holds Quota + MaxExtra postings
MaxExtra == 1

\* largest size of the first batch of a long list
MaxSplit == 2

\* longest list over the postings with missing, shared and applied urls
MaxShort == 2

Urls == << "u1", "u2", "u3", "u4", "u5", "u6", "u7", "u8", "u9", "u10", "u11",
           "u12", "u13", "u14", "u15", "u16", "u17", "u18" >>

\* "1 year"
T_1Year == << "1" >> \o Space \o W_year

\* "5 years"
T_5Years == << "5" >> \o Space \o W_years

\* the kinds of posting a long list is made of; the url is set per posting
Kinds ==
    { Posting("", W_SDE, "Amazon", W_Remote, NoDate, None, T_1Year, << >>, 90),
      Posting("", None, "TCS", W_Remote, DateOf(0), W_FullTime, << >>, << >>, 90),
      Posting("", None, "TCS", W_Bangalore, NoDate, None, << >>, << >>, 50),
      Posting("", None, "Google", W_Pune, NoDate, None, << >>, << >>, 50),
      Posting("", None, "Microsoft", W_Remote, TextDate, None, None, T_2Yrs, 50),
      Posting("", W_SDE, "Google", W_Bangalore, DateOf(0), None, T_1Year, << >>, 50),
      Posting("", W_SDE, "Microsoft", W_Bangalore, DateOf(0), None, << >>, << >>, 50),
      Posting("", None, "TCS", W_Pune, NoDate, None, << >>, << >>, 30) }

\* n postings of one kind, as one scraper returns them
Batch(kind, n) == [ i \in 1..n |-> kind ]

\* "SQL"
W_SQL == << "S", "Q", "L" >>

\* the postings of the short lists
ShortJobs ==
    { Posting("u1", W_SDE, "Amazon", W_Remote, NoDate, None, T_1Year, << >>, 90),
      Posting("u1", None, "TCS", W_Bangalore, NoDate, None, << >>, << >>, 50),
      Posting(NoneKey, W_SDE, "Google", None, NoDate, None, T_1Year, None, 90),
      Posting("u2", W_SDE, "Amazon", W_Remote, NoDate, None, T_5Years, << >>, 90),
      Posting("u2", W_SDE, "Microsoft", W_Pune, NoDate, None, << >>, << >>, 50),
      Posting("u3", W_SDE, "Amazon", W_Remote, NoDate, None, W_SQL, << >>, 50) }

\* job_scraper.py fetch_all_jobs: the list saved sets no place; pos records it
Numbered(jobs) == [ i \in 1..Len(jobs) |-> [ jobs[i] EXCEPT !.pos = i ] ]

\* a long list: two batches, every posting with a url of its own
LongLists ==
    { LET jobs == Batch(k1, n) \o Batch(k2, Quota + MaxExtra - n)
      IN  [ i \in 1..Len(jobs) |-> [ jobs[i] EXCEPT !.pos = i, !.url = Urls[i] ] ] :
        k1 \in Kinds, k2 \in Kinds, n \in 1..MaxSplit }

ShortLists == { Numbered(jobs) : jobs \in SeqsUpTo(ShortJobs, MaxShort) }

\* "sql"
W_sql == << "s", "q", "l" >>

TheProfile == Profile(W_phd, << W_sql >>, << W_phd >>, 2, << W_Bangalore >>, << W_SDE >>)

\* the profile with the other choice of the "Company Preference" box
IndianFirstProfile == [ TheProfile EXCEPT !.company_preference = T_IndianGlobal ]

EmptyProfile == Profile(<< >>, << >>, << >>, 0, << >>, << >>)

Init ==
    /\ \/ /\ jobs_raw \in LongLists
          /\ profile = TheProfile
          /\ applied_jobs = << >>
       \/ /\ jobs_raw \in ShortLists
          /\ \/ profile = TheProfile /\ applied_jobs = << [ url |-> "u1" ] >>
             \/ profile = EmptyProfile /\ applied_jobs = << >>
             \/ profile = IndianFirstProfile /\ applied_jobs = << >>
    /\ st_model \in BOOLEAN
    /\ now = 12
    /\ filtered_jobs = << >>
    /\ top10_jobs = << >>
    /\ ineligible_jobs = << >>
    /\ deduped_jobs = << >>
    /\ eligibility_input = << >>
    /\ shortlist = << >>
    /\ last_op = "none"
    /\ job = Posting("", None, "", None, NoDate, None, None, None, 0)
    /\ result = NoResult

\* streamlit_app.py lines 141-188: "Run Job Scraper & Filter"
FetchAndFilter ==
    \E user_input \in { UserInput(profile) }, deduped \in { Dedupe(jobs_raw) } :
    \E top10 \in { filter_and_rank_jobs(user_input, deduped, company_prestige) } :
        /\ deduped_jobs' = deduped
        /\ eligibility_input' = deduped
        /\ shortlist' = top10
        /\ filtered_jobs' = top10
        /\ top10_jobs' = top10
        /\ ineligible_jobs' = Ineligible(user_input, deduped, company_prestige)
        /\ last_op' = "fetch_and_filter"
        /\ UNCHANGED << jobs_raw, applied_jobs, profile, st_model, now, job, result >>

\* filters.py lines 243-279: the module run as a script
FilterAndRankJobs ==
    \E user_input \in { UserInput(profile) } :
    \E top_jobs \in { filter_and_rank_jobs(user_input, jobs_raw, company_prestige) } :
        /\ eligibility_input' = jobs_raw
        /\ shortlist' = top_jobs
        /\ filtered_jobs' = top_jobs
        /\ top10_jobs' = top_jobs
        /\ last_op' = "filter_and_rank_jobs"
        /\ UNCHANGED << jobs_raw, applied_jobs, profile, st_model, now, job, result,
                        ineligible_jobs, deduped_jobs >>

\* filters.py match_and_rank_jobs on the scraped list
MatchAndRankJobs ==
    \E user_input \in { UserInput(profile) } :
        /\ eligibility_input' = jobs_raw
        /\ shortlist' = match_and_rank_jobs(user_input, jobs_raw, company_prestige)
        /\ last_op' = "match_and_rank_jobs"
        /\ UNCHANGED << jobs_raw, applied_jobs, profile, st_model, now, job, result,
                        filtered_jobs, top10_jobs, ineligible_jobs, deduped_jobs >>

\* filters.py filter_jobs(user_profile): returns and saves top10, or raises
\* out of the relaxed filter before anything is saved
FilterJobs ==
    \E r \in { filter_jobs(jobs_raw, applied_jobs, profile, 40) } :
        /\ eligibility_input' = NotApplied(jobs_raw, applied_jobs)
        /\ shortlist' = r.value
        /\ filtered_jobs' = IF r.raised THEN filtered_jobs ELSE r.value
        /\ last_op' = IF r.raised THEN "filter_jobs raised" ELSE "filter_jobs"
        /\ UNCHANGED << jobs_raw, applied_jobs, profile, st_model, now, job, result,
                        top10_jobs, ineligible_jobs, deduped_jobs >>

\* ranker.py rank_jobs(user_profile): returns and saves top_jobs, or raises
\* out of compute_relevance_score before anything is saved
RankJobs ==
    \E r \in { rank_jobs(filtered_jobs, profile, 10) } :
        /\ eligibility_input' = filtered_jobs
        /\ shortlist' = r.value
        /\ top10_jobs' = IF r.raised THEN top10_jobs ELSE r.value
        /\ last_op' = IF r.raised THEN "rank_jobs raised" ELSE "rank_jobs"
        /\ UNCHANGED << jobs_raw, applied_jobs, profile, st_model, now, job, result,
                        filtered_jobs, ineligible_jobs, deduped_jobs >>

Next ==
    \/ FetchAndFilter
    \/ FilterAndRankJobs
    \/ MatchAndRankJobs
    \/ FilterJobs
    \/ RankJobs

Spec == Init /\ [][Next]_vars

---------------------------------------------------------------------------
(* Claims about the pipelines                                              *)

\* the calls that return a shortlist
Returned ==
    { "fetch_and_filter", "filter_and_rank_jobs", "match_and_rank_jobs",
      "filter_jobs", "rank_jobs" }

\* the calls that go through evaluate_job_match
Evaluating == { "fetch_and_filter", "filter_and_rank_jobs", "match_and_rank_jobs" }

\* C1: the shortlist returned by filter_and_rank_jobs, match_and_rank_jobs,
\* filter_jobs and rank_jobs (top_n = 10) holds at most Quota postings, also
\* when the fallback of filter_jobs has appended fillers
C1_ShortlistWithinQuota == last_op \in Returned => Len(shortlist) <= Quota

\* filter_jobs was given more than Quota postings, its strict pass fell short,
\* fillers were appended and the shortlist is full
C1_Witness ==
    /\ last_op = "filter_jobs"
    /\ Len(eligibility_input) > Quota
    /\ Len(StrictPass(eligibility_input, profile, 40)) < Quota
    /\ \E a \in 1..Len(shortlist) : shortlist[a].skill_match_pct < 40 * 100
    /\ Len(shortlist) = Quota

\* the score the last call sorted by
ScoreOf(e) ==
    CASE last_op = "rank_jobs" -> e.relevance_score
      [] last_op = "filter_jobs" -> e.skill_match_pct
      [] OTHER -> e.match_score

\* the place of a posting in the sequence the last call was given
InputIndex(e) ==
    CHOOSE i \in 1..Len(eligibility_input) : eligibility_input[i].pos = e.pos

\* the scored postings the last call sorted and cut, as they were before that
Candidates ==
    CASE last_op = "filter_jobs" ->
            LET skill_filtered == StrictPass(eligibility_input, profile, 40)
                relaxed_eligible ==
                    relaxed_filter_eligibility(
                        RelaxedCandidates(eligibility_input, skill_filtered), profile)
            IN  IF Len(skill_filtered) < 10
                    THEN skill_filtered
                             \o filter_skill_match(relaxed_eligible.value, profile, 20)
                ELSE skill_filtered
      [] last_op = "rank_jobs" ->
            [ i \in 1..Len(eligibility_input) |->
                Update(eligibility_input[i], [ relevance_score |->
                    RelevanceScore(eligibility_input[i], profile,
                                   get_company_rank(profile)) ]) ]
      [] OTHER ->
            LET eligible_jobs ==
                    filter_eligible_jobs(UserInput(profile), eligibility_input,
                                         company_prestige)
            IN  SelectSeqIdx(eligible_jobs, LAMBDA i : eligible_jobs[i].match_score >= 40)

Kept(e) == \E a \in 1..Len(shortlist) : shortlist[a].pos = e.pos

\* C2: the returned shortlist is in descending order of score; entries of
\* equal score are in the order of the input sequence; and of the postings of
\* one score on both sides of the cut, the kept ones come earlier in the input
C2_DescendingStable ==
    last_op \in Returned =>
        /\ \A a \in 1..(Len(shortlist) - 1) :
              ScoreOf(shortlist[a]) >= ScoreOf(shortlist[a + 1])
        /\ \A a, b \in 1..Len(shortlist) :
              a < b /\ ScoreOf(shortlist[a]) = ScoreOf(shortlist[b])
                  => InputIndex(shortlist[a]) < InputIndex(shortlist[b])
        /\ \A c \in Range(Candidates) : \A a \in 1..Len(shortlist) :
              ~Kept(c) /\ ScoreOf(shortlist[a]) = ScoreOf(c)
                  => InputIndex(shortlist[a]) < InputIndex(c)

\* the sort moved a later posting of higher score ahead of an earlier one, and
\* postings of one score lie on both sides of the cut
C2_Witness ==
    /\ last_op \in Evaluating
    /\ Len(shortlist) = Quota
    /\ \E a, b \in 1..Len(shortlist) :
          /\ a < b
          /\ ScoreOf(shortlist[a]) > ScoreOf(shortlist[b])
          /\ InputIndex(shortlist[a]) > InputIndex(shortlist[b])
    /\ \E c \in Range(Candidates) :
          /\ ~Kept(c)
          /\ ScoreOf(shortlist[Quota]) = ScoreOf(c)
          /\ InputIndex(shortlist[Quota]) < InputIndex(c)

NoneApplied(jobs) ==
    \A i \in 1..Len(jobs) : jobs[i].url \notin AppliedUrls(applied_jobs)

\* C3: no posting whose url is in the applied log is in the shortlist or in
\* the list of rejected postings, and none reaches the eligibility stage, in
\* filter_jobs and in the pipeline of the "Run Job Scraper & Filter" button
C3_AppliedNeverProcessed ==
    /\ last_op = "filter_jobs"
          => NoneApplied(shortlist) /\ NoneApplied(eligibility_input)
    /\ last_op = "fetch_and_filter"
          => /\ NoneApplied(shortlist)
             /\ NoneApplied(ineligible_jobs)
             /\ NoneApplied(eligibility_input)

\* the postings the strict pass of the last call selected
StrictSelected ==
    IF last_op = "filter_jobs"
        THEN StrictPass(eligibility_input, profile, 40)
    ELSE LET eligible_jobs ==
                 filter_eligible_jobs(UserInput(profile), eligibility_input,
                                      company_prestige)
         IN  SelectSeqIdx(eligible_jobs, LAMBDA i : eligible_jobs[i].match_score >= 40)

\* how many postings not selected by the strict pass are eligible under the
\* relaxed mode and score at least the lowered threshold
RelaxedCount ==
    LET relaxed_eligible ==
            relaxed_filter_eligibility(
                RelaxedCandidates(eligibility_input, StrictSelected), profile)
    IN  Len(filter_skill_match(relaxed_eligible.value, profile, 20))

\* C4: when the strict pass selects fewer than Quota postings and at least
\* Quota of the others are eligible under the relaxed mode, the shortlist has
\* exactly Quota entries, in filter_jobs and in filter_and_rank_jobs
C4_FallbackFillsQuota ==
    /\ last_op \in { "filter_jobs", "fetch_and_filter", "filter_and_rank_jobs" }
    /\ Len(StrictSelected) < Quota
    /\ RelaxedCount >= Quota
    => Len(shortlist) = Quota

\* C12: no pipeline stage raises on a posting with a null or absent field:
\* filter_jobs with its relaxed fallback and rank_jobs with
\* compute_relevance_score complete on every stored list
C12_NoStageRaises == last_op \notin { "filter_jobs raised", "rank_jobs raised" }

\* C13: with no posting, or with an empty profile, every call of a pipeline
\* returns an empty shortlist and none raises
C13_EmptyInputEmptyShortlist ==
    ( /\ last_op # "none"
      /\ jobs_raw = << >> \/ profile = EmptyProfile )
    => last_op \in Returned /\ shortlist = << >>

\* the sum of the sub-scores that need no embedding
RemainingScore(e) ==
    e.score_breakdown.title_match + e.score_breakdown.location_score
    + e.score_breakdown.recency_score + e.score_breakdown.company_score

\* C14: when the embedding model failed to load, the calls through
\* evaluate_job_match give every posting a skill sub-score of 0, and the
\* shortlist is returned in descending order of the sum of the title,
\* location, recency and company sub-scores
C14_BackendUnavailable ==
    ( ~st_model /\ last_op \in Evaluating ) =>
        /\ \A a \in 1..Len(shortlist) :
              /\ shortlist[a].score_breakdown.skill_match = 0
              /\ shortlist[a].match_score = RemainingScore(shortlist[a])
        /\ \A a \in 1..(Len(shortlist) - 1) :
              RemainingScore(shortlist[a]) >= RemainingScore(shortlist[a + 1])

\* without the model, a shortlist that holds postings with a resume and a
\* text to compare, and that the sort has reordered
C14_Witness ==
    /\ ~st_model
    /\ last_op \in Evaluating
    /\ Truthy(profile.resume)
    /\ \E a, b \in 1..Len(shortlist) :
          /\ a < b
          /\ shortlist[a].cos > 0
          /\ RemainingScore(shortlist[a]) > RemainingScore(shortlist[b])
          /\ InputIndex(shortlist[a]) > InputIndex(shortlist[b])

\* requirements + ' ' + description + ' ' + title of a posting
SkillText(e) ==
    OrEmpty(e.requirements) \o Space \o OrEmpty(e.description) \o Space \o OrEmpty(e.title)

\* the profile skills that occur in the text of a posting, whatever the case
MatchingSkills(e) ==
    { i \in 1..Len(profile.skills) :
        IsSubstr(Lower(profile.skills[i]), Lower(SkillText(e))) }

\* C15: skill_match_pct of a posting is 0.7 x semantic similarity x 100 plus
\* 0.3 x the keyword score of 10 per matching skill, so that each matching
\* skill adds 3 points (the values are in hundredths of a point)
C15_BlendScore ==
    last_op = "filter_jobs" =>
        \A a \in 1..Len(shortlist) :
            shortlist[a].skill_match_pct
                = 70 * compute_semantic_similarity(
                           Join(profile.skills \o profile.education, Space),
                           SkillText(shortlist[a]), shortlist[a].cos)
                  + 3 * 100 * Cardinality(MatchingSkills(shortlist[a]))

\* the evaluation of the i-th posting given to the last call
Evaluation(i) == evaluate_job_match(UserInput(profile), eligibility_input[i], company_prestige)

\* the places, in the sequence given to the last call, of the postings that
\* are eligible with a score of at least 40
Qualifying ==
    { i \in 1..Len(eligibility_input) :
        Evaluation(i).eligible /\ Evaluation(i).match_score >= 40 }

\* i comes before k in the stable descending order of the scores
Before(i, k) ==
    \/ Evaluation(i).match_score > Evaluation(k).match_score
    \/ Evaluation(i).match_score = Evaluation(k).match_score /\ i < k

\* C17: the shortlist of filter_and_rank_jobs holds only postings that are
\* eligible with a score of at least 40, and it is the first Quota of all
\* such postings of the input in stable descending order of score
C17_ShortlistIsTopQualifying ==
    last_op \in { "fetch_and_filter", "filter_and_rank_jobs" } =>
        /\ \A a \in 1..Len(shortlist) :
              /\ InputIndex(shortlist[a]) \in Qualifying
              /\ shortlist[a].eligible
              /\ shortlist[a].match_score >= 40
              /\ shortlist[a].match_score = Evaluation(InputIndex(shortlist[a])).match_score
        /\ Len(shortlist) = IF Cardinality(Qualifying) < Quota
                                THEN Cardinality(Qualifying) ELSE Quota
        /\ \A a, b \in 1..Len(shortlist) :
              a < b => Before(InputIndex(shortlist[a]), InputIndex(shortlist[b]))
        /\ \A i \in Qualifying : \A a \in 1..Len(shortlist) :
              (\A b \in 1..Len(shortlist) : InputIndex(shortlist[b]) # i)
                  => Before(InputIndex(shortlist[a]), i)

\* filter_and_rank_jobs was given more qualifying postings than Quota, of
\* different scores and one of them at the threshold; a later posting of the
\* input is ahead of an earlier one, and one at the threshold is left out
C17_Witness ==
    /\ last_op = "filter_and_rank_jobs"
    /\ Cardinality(Qualifying) > Quota
    /\ \E a, b \in 1..Len(shortlist) :
          a < b /\ InputIndex(shortlist[a]) > InputIndex(shortlist[b])
    /\ \E i \in Qualifying :
          /\ Evaluation(i).match_score = 40
          /\ \A b \in 1..Len(shortlist) : InputIndex(shortlist[b]) # i

\* the list the last call would return when run once more, over what it was
\* given: for filter_jobs, over the posting objects it has written on
Rerun ==
    CASE last_op = "filter_jobs" ->
            filter_jobs(Processed(jobs_raw, profile), applied_jobs, profile, 40).value
      [] last_op = "rank_jobs" -> rank_jobs(filtered_jobs, profile, 10).value
      [] last_op = "match_and_rank_jobs" ->
            match_and_rank_jobs(UserInput(profile), eligibility_input, company_prestige)
      [] OTHER ->
            filter_and_rank_jobs(UserInput(profile), eligibility_input, company_prestige)

\* C18: with the same similarity and clock, a second run over the same
\* postings, profile and table returns the same shortlist with the same
\* scores: the score an entry carries is the score of a fresh posting, also
\* for a posting filter_skill_match has already written on, and evaluating
\* an entry of the shortlist again gives its score_breakdown again
C18_Deterministic ==
    /\ last_op \in Returned => Rerun = shortlist
    /\ last_op = "filter_jobs" =>
          \A a \in 1..Len(shortlist) :
              shortlist[a].skill_match_pct
                  = SkillMatchPct(eligibility_input[InputIndex(shortlist[a])], profile)
    /\ last_op \in Evaluating =>
          \A a \in 1..Len(shortlist) :
              evaluate_job_match(UserInput(profile), shortlist[a], company_prestige).score_breakdown
                  = shortlist[a].score_breakdown

\* filter_jobs has returned a posting that filter_skill_match scored twice,
\* in the strict pass and again as a filler, with a score above zero
C18_Witness ==
    /\ last_op = "filter_jobs"
    /\ \E a, b \in 1..Len(shortlist) :
          /\ shortlist[a].skill_match_pct >= 40 * 100
          /\ shortlist[b].skill_match_pct < 40 * 100
          /\ shortlist[b].skill_match_pct > 0

\* C19: a run of filter_jobs or of rank_jobs leaves the stored files as they
\* were: the filtered postings, the top ten, the applied postings and the
\* profile with its preferences
C19_PersistsNothing ==
    [][ (FilterJobs \/ RankJobs)
            => UNCHANGED << filtered_jobs, top10_jobs, applied_jobs, profile >> ]_vars

\* C20: a run of filter_jobs or of the UI handler goes from the raw postings
\* through deduplication by url to eligibility, scoring, the fallback fill,
\* the sort, the cut and the delivery, in this order: the postings handed to
\* the eligibility stage share no url, and the shortlist delivered is sorted
\* and cut to Quota after any fill
C20_StagesInOrder ==
    last_op \in { "filter_jobs", "fetch_and_filter" } =>
        /\ \A i, k \in 1..Len(eligibility_input) :
              i < k /\ TruthyKey(eligibility_input[i].url)
                  => eligibility_input[i].url # eligibility_input[k].url
        /\ \A a \in 1..(Len(shortlist) - 1) :
              ScoreOf(shortlist[a]) >= ScoreOf(shortlist[a + 1])
        /\ Len(shortlist) <= Quota

\* the relaxed candidates of the last call of filter_jobs that are eligible
\* under the relaxed mode and score at least the lowered threshold, as scored
RelaxedQualifying ==
    filter_skill_match(
        relaxed_filter_eligibility(
            RelaxedCandidates(eligibility_input, StrictSelected), profile).value,
        profile, 20)

\* an entry of the shortlist that the fallback has appended
IsFiller(e) == \A i \in 1..Len(StrictSelected) : StrictSelected[i].pos # e.pos

\* C21: when the fallback of filter_jobs has more qualifying candidates than
\* open slots, no candidate it leaves out has a strictly higher
\* skill_match_pct than a filler it has appended
C21_FillersByScore ==
    ( last_op = "filter_jobs" /\ Len(StrictSelected) < Quota ) =>
        \A c \in Range(RelaxedQualifying) : \A a \in 1..Len(shortlist) :
            ~Kept(c) /\ IsFiller(shortlist[a])
                => c.skill_match_pct <= shortlist[a].skill_match_pct

\* C23: in filter_jobs no filler has the url of a posting the strict pass
\* selected, every filler has a skill_match_pct of at least 20, no posting of
\* the input is in the shortlist twice, and a shortlist made from postings
\* of distinct urls has distinct urls
C23_FillersAreNew ==
    last_op = "filter_jobs" =>
        /\ \A a \in 1..Len(shortlist) :
              IsFiller(shortlist[a]) =>
                  /\ \A i \in 1..Len(StrictSelected) :
                        StrictSelected[i].url # shortlist[a].url
                  /\ shortlist[a].skill_match_pct >= 20 * 100
        /\ \A a, b \in 1..Len(shortlist) : a # b => shortlist[a].pos # shortlist[b].pos
        /\ ( \A i, k \in 1..Len(eligibility_input) :
                 i # k => eligibility_input[i].url # eligibility_input[k].url )
             => \A a, b \in 1..Len(shortlist) : a # b => shortlist[a].url # shortlist[b].url

\* filter_jobs has returned postings of the strict pass together with
\* fillers, from a list of more than Quota postings
C23_Witness ==
    /\ last_op = "filter_jobs"
    /\ Len(eligibility_input) > Quota
    /\ StrictSelected # << >>
    /\ \E a, b \in 1..Len(shortlist) :
          IsFiller(shortlist[a]) /\ ~IsFiller(shortlist[b])

\* the keys of a posting as the scraper stores it
PostingKeys == DOMAIN Posting("", None, "", None, NoDate, None, None, None, 0)

\* C26: match_and_rank_jobs and filter_and_rank_jobs return the same list
\* for the same user input, postings and table, with the same fields in the
\* same order, and the postings they were given carry no added field
C26_SamePipelines ==
    /\ last_op = "match_and_rank_jobs" =>
          shortlist = filter_and_rank_jobs(UserInput(profile), jobs_raw, company_prestige)
    /\ last_op = "filter_and_rank_jobs" =>
          shortlist = match_and_rank_jobs(UserInput(profile), jobs_raw, company_prestige)
    /\ last_op \in { "match_and_rank_jobs", "filter_and_rank_jobs" } =>
          /\ eligibility_input = jobs_raw
          /\ \A i \in 1..Len(jobs_raw) : DOMAIN jobs_raw[i] = PostingKeys

\* match_and_rank_jobs was given more qualifying postings than Quota and has
\* put a later posting of the input ahead of an earlier one
C26_Witness ==
    /\ last_op = "match_and_rank_jobs"
    /\ Cardinality(Qualifying) > Quota
    /\ Len(shortlist) = Quota
    /\ \E a, b \in 1..Len(shortlist) :
          a < b /\ InputIndex(shortlist[a]) > InputIndex(shortlist[b])


\* C28: the weights rank_jobs gets from get_company_rank follow the
\* profile's company_preference: with "Global > Indian" every global company
\* has a strictly higher weight than every Indian one, and with
\* "Indian > Global" every Indian company a strictly higher one than every
\* global one
C28_RankFollowsPreference ==
    last_op = "rank_jobs" =>
        LET rank == get_company_rank(profile)
        IN  /\ profile.company_preference = T_GlobalIndian =>
                  \A g \in GLOBAL_COMPANIES, c \in INDIAN_COMPANIES : rank[g] > rank[c]
            /\ profile.company_preference = T_IndianGlobal =>
                  \A g \in GLOBAL_COMPANIES, c \in INDIAN_COMPANIES : rank[c] > rank[g]

---------------------------------------------------------------------------
(* streamlit_app.py: the log of applied postings, applied_jobs.json        *)

\* any(j.get('url') == url for j in applied)
Logged(applied, url) == \E i \in 1..Len(applied) : applied[i].url = url

\* lines 228-238, "Mark as Applied": the posting is appended, and the file
\* written, when no entry of the log has its url
mark_as_applied(applied, j) ==
    IF ~Logged(applied, j.url) THEN Append(applied, j) ELSE applied

\* lines 264-266 with the test made on the log as it was loaded, not on the
\* list being appended to
import_applied_TestLoaded(applied, urls) ==
    LET fresh == SelectSeqIdx(urls, LAMBDA i : ~Logged(applied, urls[i]))
    IN  applied \o [ i \in 1..Len(fresh) |-> [ url |-> fresh[i] ] ]

\* lines 262-268, the CSV import: the loop over the first column
RECURSIVE import_applied(_, _)
import_applied(applied, urls) ==
    IF urls = << >> THEN applied
    ELSE import_applied(
             IF ~Logged(applied, Head(urls))
                 THEN Append(applied, [ url |-> Head(urls) ])
             ELSE applied,
             Tail(urls))

\* a line of the text area: blanks and at most one url; str.strip() drops
\* the blanks at both ends, and the url left is '' for a line of blanks
RECURSIVE LStrip(_)
LStrip(line) ==
    IF line # << >> /\ Head(line) = " " THEN LStrip(Tail(line)) ELSE line

RECURSIVE RStrip(_)
RStrip(line) ==
    IF line # << >> /\ line[Len(line)] = " "
        THEN RStrip(SubSeq(line, 1, Len(line) - 1))
    ELSE line

Strip(line) == With(RStrip(LStrip(line)), LAMBDA t : IF t = << >> THEN "" ELSE t[1])

\* lines 271-277, "Add URLs": the loop over the lines pasted
RECURSIVE add_urls(_, _)
add_urls(applied, lines) ==
    IF lines = << >> THEN applied
    ELSE With(Strip(Head(lines)), LAMBDA url :
             add_urls(IF TruthyKey(url) /\ ~Logged(applied, url)
                          THEN Append(applied, [ url |-> url ])
                      ELSE applied,
                      Tail(lines)))

\* most urls in one uploaded file, and most lines pasted at once
MaxImport == 2

\* the postings shown with a "Mark as Applied" button
ShownJobs ==
    { Posting(u, W_SDE, "Amazon", W_Remote, NoDate, None, None, None, 0) :
        u \in { "u1", "u2", NoneKey } }

\* the first column of an uploaded file
CsvColumns == SeqsUpTo({ "u1", "u2", "u3" }, MaxImport)

\* the lines pasted: a url, bare or between blanks, or blanks only
PastedLines ==
    SeqsUpTo({ << "u1" >>, << " ", "u2" >>, << " ", "u3", " " >>, << " " >>, << >> },
             MaxImport)

\* logs in which no two entries share a url
StartLogs ==
    { << >>, << [ url |-> "u1" ] >>, << [ url |-> "u3" ], [ url |-> "u2" ] >> }

InitApplied ==
    /\ applied_jobs \in StartLogs
    /\ jobs_raw = << >>
    /\ deduped_jobs = << >>
    /\ last_op = "none"
    /\ eligibility_input = << >>
    /\ now = 12
    /\ st_model = TRUE
    /\ profile = Profile(<< >>, << >>, << >>, 0, << >>, << >>)
    /\ job = Posting("", None, "", None, NoDate, None, None, None, 0)
    /\ result = NoResult
    /\ filtered_jobs = << >>
    /\ top10_jobs = << >>
    /\ ineligible_jobs = << >>
    /\ shortlist = << >>

\* the button "Mark as Applied" of one posting shown
MarkAsApplied ==
    \E j \in ShownJobs :
        /\ applied_jobs' = mark_as_applied(applied_jobs, j)
        /\ job' = j
        /\ last_op' = "mark_as_applied"
        /\ UNCHANGED << jobs_raw, profile, st_model, filtered_jobs, top10_jobs,
                        ineligible_jobs, deduped_jobs, shortlist, eligibility_input,
                        now, result >>

\* a CSV file uploaded in "My Applications"
ImportApplied ==
    \E urls \in CsvColumns :
        /\ applied_jobs' = import_applied(applied_jobs, urls)
        /\ last_op' = "import_applied"
        /\ UNCHANGED << jobs_raw, profile, st_model, filtered_jobs, top10_jobs,
                        ineligible_jobs, deduped_jobs, shortlist, eligibility_input,
                        now, job, result >>

\* the button "Add URLs" of "My Applications"
AddUrls ==
    \E lines \in PastedLines :
        /\ applied_jobs' = add_urls(applied_jobs, lines)
        /\ last_op' = "add_urls"
        /\ UNCHANGED << jobs_raw, profile, st_model, filtered_jobs, top10_jobs,
                        ineligible_jobs, deduped_jobs, shortlist, eligibility_input,
                        now, job, result >>

NextApplied == MarkAsApplied \/ ImportApplied \/ AddUrls

SpecApplied == InitApplied /\ [][NextApplied]_vars

\* no two entries of the log share a url
OnePerUrl(applied) ==
    \A i, k \in 1..Len(applied) : i # k => applied[i].url # applied[k].url

\* C27: from a log with at most one entry per url, each of "Mark as
\* Applied", the CSV import and "Add URLs" leaves a log with at most one
\* entry per url, in which every entry logged before is still in its place,
\* unchanged
C27_LogKeepsOnePerUrl ==
    [][ OnePerUrl(applied_jobs) =>
            /\ OnePerUrl(applied_jobs')
            /\ Len(applied_jobs') >= Len(applied_jobs)
            /\ SubSeq(applied_jobs', 1, Len(applied_jobs)) = applied_jobs ]_vars

\* after an import, the log holds a posting marked as applied next to
\* entries made of a url only
C27_Witness ==
    /\ last_op = "import_applied"
    /\ Len(applied_jobs) >= 3
    /\ \E i, k \in 1..Len(applied_jobs) :
          /\ DOMAIN applied_jobs[i] = PostingKeys
          /\ DOMAIN applied_jobs[k] = { "url" }

====
